---- MODULE Spec2Model ----
(***************************************************************************)
(* Color Dash: the game simulation core of main() in src/chatgpt.py and of  *)
(* game_intro(), game_loop() and game_over_screen() in src/gemini.py.  The  *)
(* two scripts are separate programs; a behaviour runs one of them.         *)
(*                                                                         *)
(* src/chatgpt.py                                                          *)
(*                                                                         *)
(* Lengths and speeds are counted in half pixels, the unit of              *)
(* SPEED_INCREMENT_AMOUNT (0.5), so that every position the program can    *)
(* compute is an integer here.                                             *)
(*                                                                         *)
(* Time: the program reads pygame.time.get_ticks() and only ever uses the  *)
(* difference current_time - last_spawn_time (line 275).  The model keeps  *)
(* that difference, elapsed, saturated just above SHAPE_SPAWN_INTERVAL,    *)
(* which is exact for the one comparison the program makes with it.        *)
(*                                                                         *)
(* src/gemini.py                                                           *)
(*                                                                         *)
(* Lengths are pixels; the three vertical lengths screen_height,           *)
(* zone_height and shape_size are scaled down together, which keeps the    *)
(* order of the source: a shape meets the zone row some frames after its   *)
(* spawn and leaves the screen some frames later.  Time is counted in ms: the program reads            *)
(* time.time() in seconds and compares current_time - last_shape_time with *)
(* shape_spawn_delay (1.5, lowered by 0.1 down to 0.5); the model keeps    *)
(* that difference, g_elapsed, saturated just above the initial delay.     *)
(* Names that both scripts use carry the prefix g_ for gemini.py.          *)
(***************************************************************************)
EXTENDS Integers, Sequences, FiniteSets, TLC

VARIABLES
    pc,                 \* "loop": inside while running; "done": after it
    running,            \* main(): running
    game_state,         \* main(): game_state
    index,              \* collector.index
    shapes,             \* main(): shapes, the live list, in spawn order
    to_remove,          \* main(): to_remove of the last update
    score,              \* main(): score
    lives,              \* main(): lives
    current_fall_speed, \* main(): current_fall_speed (half pixels per frame)
    elapsed,            \* pygame.time.get_ticks() - last_spawn_time (ms)
    high_score,         \* main(): high_score
    file,               \* highscore.txt
    next_id,            \* identity of the next FallingShape object
    g_pc,               \* gemini.py: "intro", "begin" (game_loop is entered),
                        \* "loop", "over" (game_over_screen), "exit", "error"
    sound_on,           \* gemini.py global sound_on
    game_over,          \* game_loop(): game_over
    g_score,            \* game_loop(): score
    g_high_score,       \* game_loop(): high_score
    g_lives,            \* game_loop(): lives
    shape_speed,        \* game_loop(): shape_speed (pixels per frame)
    zone_position,      \* game_loop(): zone_position
    g_shapes,           \* game_loop(): shapes, in spawn order
    g_elapsed,          \* time.time() - last_shape_time (ms)
    shape_spawn_delay,  \* game_loop(): shape_spawn_delay (ms)
    played,             \* the arguments of play_sound in the last frame
    g_removed,          \* the shapes shapes.remove() took out in the last
                        \* frame, as they were then (kept for the claims)
    g_file              \* high_score.txt

cvars == <<pc, running, game_state, index, shapes, to_remove, score, lives,
           current_fall_speed, elapsed, high_score, file, next_id>>

gvars == <<g_pc, sound_on, game_over, g_score, g_high_score, g_lives,
           shape_speed, zone_position, g_shapes, g_elapsed, shape_spawn_delay,
           played, g_removed, g_file>>

vars == <<cvars, gvars>>

-----------------------------------------------------------------------------
(* Program constants                                                       *)

Scale == 2                      \* half pixels per pixel
HEIGHT == 50                    \* playfield height in pixels (800 in the source)
SHAPE_FALL_SPEED == 3           \* pixels per frame
SPEED_INCREMENT_INTERVAL == 5
SPEED_INCREMENT_AMOUNT == 1     \* 0.5 pixel = 1 half pixel
NUM_LIVES == 3
BOTTOM_MARGIN == 50
SHAPE_SPAWN_INTERVAL == 1000    \* ms
SHAPE_START_Y == -50            \* FallingShape.y at construction, pixels
SHAPE_SIZE == 30                \* FallingShape.size, pixels

STATE_TITLE == 0
STATE_PLAYING == 1
STATE_GAMEOVER == 2

COLOUR_LIST == <<"RED", "GREEN", "BLUE">>
SHAPE_TYPES == <<"circle", "square", "triangle">>

K_LEFT == "K_LEFT"
K_RIGHT == "K_RIGHT"
K_SPACE == "K_SPACE"
K_OTHER == "K_a"
Keys == {K_LEFT, K_RIGHT, K_SPACE, K_OTHER}

\* src/gemini.py
screen_width == 600
screen_height == 25             \* pixels (800 in the source)
zone_colors == <<"RED", "GREEN", "BLUE">>
shape_colors == zone_colors
lives_0 == 3                    \* game_loop(): lives = 3
shape_speed_0 == 5              \* game_loop(): shape_speed = 5
speed_increase_interval == 2    \* points (20 in the source)
zone_width == screen_width \div 3
zone_height == 5                \* pixels (50 in the source)
shape_size == 10                \* pixels (40 in the source)
zone_position_0 == 1            \* game_loop(): zone_position = 1
shape_spawn_delay_0 == 1500     \* ms (1.5 s)
spawn_delay_step == 100         \* ms (0.1 s), line 242
spawn_delay_min == 500          \* ms (0.5 s), line 242
match_sound == "match_sound"
wrong_match_sound == "wrong_match_sound"
game_over_sound == "game_over_sound"
K_s == "K_s"
GKeys == {K_LEFT, K_RIGHT, K_SPACE, K_s}

-----------------------------------------------------------------------------
(* Bounds of the model                                                     *)

MaxScore == 3       \* Spec: a Playing session is followed while score < MaxScore
MaxLive == 1        \* Spec: no spawn is brought onto MaxLive live shapes
LongScore == 6      \* SpecLong: as MaxScore
LongLive == 2       \* SpecLong: as MaxLive
StoredHigh == 1     \* the high score found in highscore.txt at start
ShortFrame == 125   \* ms: an ordinary frame, a fraction of the spawn interval
LongFrame == 1001   \* ms: a stalled frame, longer than the spawn interval
FrameTimes == {ShortFrame, LongFrame}
MaxRot == 6          \* rotations in a row that the rotation claims look at
GemScore == 2       \* SpecGemini: as MaxScore
GemLive == 2        \* SpecGemini: as MaxLive
GemLongScore == 23  \* SpecEither, gemini.py: as MaxScore
GemLongLive == 2    \* SpecEither, gemini.py: as MaxLive
GemFrame == 400     \* ms: the time one frame of gemini.py takes
MaxText == 2        \* SpecStore: the longest content of a high-score file
MaxPast == 3        \* half pixels below the screen a resolved shape is put

-----------------------------------------------------------------------------
(* highscore.txt: load_high_score / save_high_score                        *)

DigitChars == <<"0", "1", "2", "3", "4", "5", "6", "7", "8", "9">>
Blank == {" ", "\n"}

DigitVal(c) == (CHOOSE i \in DOMAIN DigitChars : DigitChars[i] = c) - 1

IsDigit(c) == \E i \in DOMAIN DigitChars : DigitChars[i] = c

RECURSIVE Strip(_)
Strip(s) ==
    IF s = <<>> THEN s
    ELSE IF Head(s) \in Blank THEN Strip(Tail(s))
    ELSE IF s[Len(s)] \in Blank THEN Strip(SubSeq(s, 1, Len(s) - 1))
    ELSE s

RECURSIVE DigitsValue(_)
DigitsValue(s) ==
    IF s = <<>> THEN 0
    ELSE 10 * DigitsValue(SubSeq(s, 1, Len(s) - 1)) + DigitVal(s[Len(s)])

AllDigits(s) == s # <<>> /\ \A i \in DOMAIN s : IsDigit(s[i])

\* int(text): ok with the value, or not ok (ValueError)
PyInt(text) ==
    LET s == Strip(text) IN
    IF AllDigits(s) THEN [ok |-> TRUE, value |-> DigitsValue(s)]
    ELSE IF s # <<>> /\ Head(s) \in {"+", "-"} /\ AllDigits(Tail(s))
         THEN [ok |-> TRUE,
               value |-> IF Head(s) = "-" THEN 0 - DigitsValue(Tail(s))
                         ELSE DigitsValue(Tail(s))]
    ELSE [ok |-> FALSE, value |-> 0]

RECURSIVE PyStr(_)
\* str(n) for n >= 0
PyStr(n) ==
    IF n < 10 THEN <<DigitChars[n + 1]>>
    ELSE Append(PyStr(n \div 10), DigitChars[(n % 10) + 1])

NoFile == [exists |-> FALSE, text |-> <<>>]

load_high_score(f) ==
    IF ~f.exists THEN 0
    ELSE LET v == PyInt(f.text) IN
         IF v.ok THEN v.value ELSE 0

save_high_score(s) == [exists |-> TRUE, text |-> PyStr(s)]

-----------------------------------------------------------------------------
(* CollectorZones                                                          *)

CollectorZones == 0                                  \* __init__: self.index
collector_y == Scale * (HEIGHT - BOTTOM_MARGIN)      \* __init__: self.y

\* mutant: a rotation clamped at the left end
move_left_clamped(i) == IF i - 1 < 0 THEN 0 ELSE i - 1

move_left(i) == (i - 1) % 3

move_right(i) == (i + 1) % 3

get_centre_colour(i) == COLOUR_LIST[((i + 1) % 3) + 1]

-----------------------------------------------------------------------------
(* FallingShape                                                            *)

FallingShape(id, colour, shape_type, fall_speed) ==
    [id |-> id, colour |-> colour, shape_type |-> shape_type,
     y |-> Scale * SHAPE_START_Y, speed |-> fall_speed,
     size |-> Scale * SHAPE_SIZE]

update(shape) == [shape EXCEPT !.y = shape.y + shape.speed]

is_off_screen(shape) == shape.y - shape.size > Scale * HEIGHT

\* mutant: the row is met by the shape's y, not by its bottom edge
at_zone_row_byTop(shape) == shape.y >= collector_y

\* line 289
at_zone_row(shape) == shape.y + shape.size >= collector_y

-----------------------------------------------------------------------------
(* main(): the update section of one frame, lines 271-334                  *)

\* mutant: a spawn as soon as the interval has passed, not only after it
Spawn_atInterval(list, e, speed, id, colour, shape_type) ==
    IF e >= SHAPE_SPAWN_INTERVAL
    THEN Append(list, FallingShape(id, colour, shape_type, speed))
    ELSE list

\* lines 275-277: the spawner
Spawn(list, e, speed, id, colour, shape_type) ==
    IF e > SHAPE_SPAWN_INTERVAL
    THEN Append(list, FallingShape(id, colour, shape_type, speed))
    ELSE list

\* lines 280-281
UpdateAll(list) == [i \in DOMAIN list |-> update(list[i])]

\* mutant: a triangle is never a match
ResolveOne_byType(acc, shape, centre) ==
    IF at_zone_row(shape)
    THEN IF shape.colour = centre /\ shape.shape_type # SHAPE_TYPES[3]
         THEN LET s == acc.score + 1 IN
              [acc EXCEPT !.score = s,
                          !.speed = IF s % SPEED_INCREMENT_INTERVAL = 0
                                    THEN acc.speed + SPEED_INCREMENT_AMOUNT
                                    ELSE acc.speed,
                          !.to_remove = Append(acc.to_remove, shape)]
         ELSE [acc EXCEPT !.lives = acc.lives - 1,
                          !.to_remove = Append(acc.to_remove, shape)]
    ELSE IF is_off_screen(shape)
    THEN [acc EXCEPT !.lives = acc.lives - 1,
                     !.to_remove = Append(acc.to_remove, shape)]
    ELSE acc

\* mutant: a mismatch also costs a point
ResolveOne_penalty(acc, shape, centre) ==
    IF at_zone_row(shape)
    THEN IF shape.colour = centre
         THEN LET s == acc.score + 1 IN
              [acc EXCEPT !.score = s,
                          !.speed = IF s % SPEED_INCREMENT_INTERVAL = 0
                                    THEN acc.speed + SPEED_INCREMENT_AMOUNT
                                    ELSE acc.speed,
                          !.to_remove = Append(acc.to_remove, shape)]
         ELSE [acc EXCEPT !.lives = acc.lives - 1,
                          !.score = IF acc.score > 0 THEN acc.score - 1 ELSE 0,
                          !.to_remove = Append(acc.to_remove, shape)]
    ELSE IF is_off_screen(shape)
    THEN [acc EXCEPT !.lives = acc.lives - 1,
                     !.to_remove = Append(acc.to_remove, shape)]
    ELSE acc

\* mutant: the off-screen test comes before the zone-row test
ResolveOne_offScreenFirst(acc, shape, centre) ==
    IF is_off_screen(shape)
    THEN [acc EXCEPT !.lives = acc.lives - 1,
                     !.to_remove = Append(acc.to_remove, shape)]
    ELSE IF at_zone_row(shape)
    THEN IF shape.colour = centre
         THEN LET s == acc.score + 1 IN
              [acc EXCEPT !.score = s,
                          !.speed = IF s % SPEED_INCREMENT_INTERVAL = 0
                                    THEN acc.speed + SPEED_INCREMENT_AMOUNT
                                    ELSE acc.speed,
                          !.to_remove = Append(acc.to_remove, shape)]
         ELSE [acc EXCEPT !.lives = acc.lives - 1,
                          !.to_remove = Append(acc.to_remove, shape)]
    ELSE acc

\* mutant: the interval is tested on the score before the catch
ResolveOne_testsOldScore(acc, shape, centre) ==
    IF at_zone_row(shape)
    THEN IF shape.colour = centre
         THEN LET s == acc.score + 1 IN
              [acc EXCEPT !.score = s,
                          !.speed = IF acc.score % SPEED_INCREMENT_INTERVAL = 0
                                    THEN acc.speed + SPEED_INCREMENT_AMOUNT
                                    ELSE acc.speed,
                          !.to_remove = Append(acc.to_remove, shape)]
         ELSE [acc EXCEPT !.lives = acc.lives - 1,
                          !.to_remove = Append(acc.to_remove, shape)]
    ELSE IF is_off_screen(shape)
    THEN [acc EXCEPT !.lives = acc.lives - 1,
                     !.to_remove = Append(acc.to_remove, shape)]
    ELSE acc

\* lines 289-316: the body of the resolution loop for one shape
ResolveOne(acc, shape, centre) ==
    IF at_zone_row(shape)
    THEN IF shape.colour = centre
         THEN LET s == acc.score + 1 IN
              [acc EXCEPT !.score = s,
                          !.speed = IF s % SPEED_INCREMENT_INTERVAL = 0
                                    THEN acc.speed + SPEED_INCREMENT_AMOUNT
                                    ELSE acc.speed,
                          !.to_remove = Append(acc.to_remove, shape)]
         ELSE [acc EXCEPT !.lives = acc.lives - 1,
                          !.to_remove = Append(acc.to_remove, shape)]
    ELSE IF is_off_screen(shape)
    THEN [acc EXCEPT !.lives = acc.lives - 1,
                     !.to_remove = Append(acc.to_remove, shape)]
    ELSE acc

RECURSIVE ResolveFrom(_, _, _, _)
\* lines 288-316: for shape in shapes, from position i on
ResolveFrom(acc, list, i, centre) ==
    IF i > Len(list) THEN acc
    ELSE ResolveFrom(ResolveOne(acc, list[i], centre), list, i + 1, centre)

\* list.remove(x): the first element equal to x is taken out
ListRemove(list, x) ==
    LET k == CHOOSE i \in DOMAIN list :
                 list[i] = x /\ \A j \in 1..(i - 1) : list[j] # x
    IN SubSeq(list, 1, k - 1) \o SubSeq(list, k + 1, Len(list))

\* mutant: only the first shape of to_remove is taken out of the live list
RemoveAll_first(list, rem) ==
    IF rem = <<>> THEN list
    ELSE IF \E i \in DOMAIN list : list[i] = Head(rem)
         THEN ListRemove(list, Head(rem)) ELSE list

RECURSIVE RemoveAll(_, _)
\* lines 319-321
RemoveAll(list, rem) ==
    IF rem = <<>> THEN list
    ELSE LET x == Head(rem) IN
         RemoveAll(IF \E i \in DOMAIN list : list[i] = x
                   THEN ListRemove(list, x) ELSE list,
                   Tail(rem))

\* line 324
GameIsOver(l) == l <= 0

\* mutant: every final score is taken as the new high score
BeatsHighScore_always(s, h) == TRUE

\* line 326
BeatsHighScore(s, h) == s > h

-----------------------------------------------------------------------------
(* The state after lines 215-237                                           *)

InitFiles == {NoFile, save_high_score(StoredHigh)}

\* main() of chatgpt.py has reached its loop, with highscore.txt one of files
ChatgptStarts(files) ==
    /\ pc = "loop"
    /\ running = TRUE
    /\ file \in files
    /\ high_score = load_high_score(file)
    /\ game_state = STATE_TITLE
    /\ index = CollectorZones
    /\ shapes = <<>>
    /\ to_remove = <<>>
    /\ score = 0
    /\ lives = NUM_LIVES
    /\ current_fall_speed = Scale * SHAPE_FALL_SPEED
    /\ elapsed = 0
    /\ next_id = 0

\* gemini.py has reached game_intro(), with high_score.txt one of files; the
\* locals of game_loop() do not exist yet and are given their first values
GeminiStarts(files) ==
    /\ g_pc = "intro"
    /\ sound_on = FALSE
    /\ g_file \in files
    /\ game_over = FALSE
    /\ g_score = 0
    /\ g_high_score = 0
    /\ g_lives = lives_0
    /\ shape_speed = shape_speed_0
    /\ zone_position = zone_position_0
    /\ g_shapes = <<>>
    /\ g_elapsed = 0
    /\ shape_spawn_delay = shape_spawn_delay_0
    /\ played = <<>>
    /\ g_removed = <<>>

\* chatgpt.py is run
Init == ChatgptStarts(InitFiles) /\ GeminiStarts({NoFile})

\* gemini.py is run
InitGemini == ChatgptStarts({NoFile}) /\ GeminiStarts(InitFiles)

-----------------------------------------------------------------------------
(* Event handling, lines 243-269                                           *)

\* lines 244-245
Quit ==
    /\ pc = "loop"
    /\ running' = FALSE
    /\ UNCHANGED <<pc, game_state, index, shapes, to_remove, score, lives,
                   current_fall_speed, elapsed, high_score, file, next_id>>

\* mutant: the start leaves the fall speed of the previous session
StartGame_keepSpeed ==
    /\ game_state' = STATE_PLAYING
    /\ score' = 0
    /\ lives' = NUM_LIVES
    /\ shapes' = <<>>
    /\ index' = CollectorZones
    /\ elapsed' = 0
    /\ next_id' = 0
    /\ UNCHANGED <<current_fall_speed, to_remove, high_score, file>>

\* lines 249-257
StartGame ==
    /\ game_state' = STATE_PLAYING
    /\ score' = 0
    /\ lives' = NUM_LIVES
    /\ shapes' = <<>>
    /\ index' = CollectorZones
    /\ current_fall_speed' = Scale * SHAPE_FALL_SPEED
    /\ elapsed' = 0
    /\ next_id' = 0
    /\ UNCHANGED <<to_remove, high_score, file>>

\* lines 260-264
PlayingKey(key) ==
    /\ index' = IF key = K_LEFT THEN move_left(index)
                ELSE IF key = K_RIGHT THEN move_right(index)
                ELSE index
    /\ UNCHANGED <<game_state, shapes, to_remove, score, lives,
                   current_fall_speed, elapsed, high_score, file, next_id>>

\* mutant: SPACE restarts straight into a session
GameOverKey_toPlaying(key) ==
    /\ game_state' = IF key = K_SPACE THEN STATE_PLAYING ELSE game_state
    /\ UNCHANGED <<index, shapes, to_remove, score, lives,
                   current_fall_speed, elapsed, high_score, file, next_id>>

\* mutant: LEFT and RIGHT still rotate the zones on the game-over screen
GameOverKey_rotates(key) ==
    /\ game_state' = IF key = K_SPACE THEN STATE_TITLE ELSE game_state
    /\ index' = IF key = K_LEFT THEN move_left(index)
                ELSE IF key = K_RIGHT THEN move_right(index)
                ELSE index
    /\ UNCHANGED <<shapes, to_remove, score, lives,
                   current_fall_speed, elapsed, high_score, file, next_id>>

\* lines 267-269
GameOverKey(key) ==
    /\ game_state' = IF key = K_SPACE THEN STATE_TITLE ELSE game_state
    /\ UNCHANGED <<index, shapes, to_remove, score, lives,
                   current_fall_speed, elapsed, high_score, file, next_id>>

\* lines 247-269: one KEYDOWN event
KeyDown(key) ==
    /\ pc = "loop"
    /\ IF game_state = STATE_TITLE THEN StartGame
       ELSE IF game_state = STATE_PLAYING THEN PlayingKey(key)
       ELSE IF game_state = STATE_GAMEOVER THEN GameOverKey(key)
       ELSE UNCHANGED <<game_state, index, shapes, to_remove, score, lives,
                        current_fall_speed, elapsed, high_score, file, next_id>>
    /\ UNCHANGED <<pc, running>>

-----------------------------------------------------------------------------
(* One frame: the update section, then the end of the iteration and the    *)
(* clock.tick(FPS) that opens the next one, which lasts dt ms              *)

\* the clock read at line 274 of the next frame, against last_spawn_time
Later(e, dt) ==
    IF e + dt > SHAPE_SPAWN_INTERVAL THEN SHAPE_SPAWN_INTERVAL + 1 ELSE e + dt

\* lines 272-334
UpdateLogic(dt, colour, shape_type) ==
    LET spawned == Spawn(shapes, elapsed, current_fall_speed, next_id,
                         colour, shape_type)
        didSpawn == Len(spawned) > Len(shapes)
        sinceSpawn == IF didSpawn THEN 0 ELSE elapsed
        moved == UpdateAll(spawned)
        acc == ResolveFrom([score |-> score, lives |-> lives,
                            speed |-> current_fall_speed, to_remove |-> <<>>],
                           moved, 1, get_centre_colour(index))
        over == GameIsOver(acc.lives)
        best == over /\ BeatsHighScore(acc.score, high_score)
    IN /\ shapes' = RemoveAll(moved, acc.to_remove)
       /\ to_remove' = acc.to_remove
       /\ score' = acc.score
       /\ lives' = acc.lives
       /\ current_fall_speed' = acc.speed
       /\ elapsed' = Later(sinceSpawn, dt)
       /\ next_id' = IF didSpawn THEN next_id + 1 ELSE next_id
       /\ high_score' = IF best THEN acc.score ELSE high_score
       /\ file' = IF best THEN save_high_score(acc.score) ELSE file
       /\ game_state' = IF over THEN STATE_GAMEOVER ELSE game_state
       /\ UNCHANGED index

\* mutant: the update section is run in every state
Frame_always(dt, colour, shape_type) ==
    /\ pc = "loop"
    /\ UpdateLogic(dt, colour, shape_type)
    /\ pc' = IF running THEN "loop" ELSE "done"
    /\ UNCHANGED running

\* lines 239-240 and 271-334
Frame(dt, colour, shape_type) ==
    /\ pc = "loop"
    /\ IF game_state = STATE_PLAYING
       THEN UpdateLogic(dt, colour, shape_type)
       ELSE /\ elapsed' = Later(elapsed, dt)
            /\ UNCHANGED <<game_state, index, shapes, to_remove, score, lives,
                           current_fall_speed, high_score, file, next_id>>
    /\ pc' = IF running THEN "loop" ELSE "done"
    /\ UNCHANGED running

-----------------------------------------------------------------------------
(* src/gemini.py                                                           *)

\* lines 72-78: the value returned, or not ok when int() raises ValueError,
\* which load_high_score does not catch
g_load_high_score(f) ==
    IF ~f.exists THEN [ok |-> TRUE, value |-> 0] ELSE PyInt(f.text)

\* lines 81-84
g_save_high_score(s) == [exists |-> TRUE, text |-> PyStr(s)]

\* pygame.Rect.colliderect: the two rectangles overlap in more than an edge
colliderect(ax, ay, aw, ah, bx, by, bw, bh) ==
    ax < bx + bw /\ ax + aw > bx /\ ay < by + bh /\ ay + ah > by

\* line 200: zone["rect"].x of zones[i]
zone_x(position, i) == (position - 1 + i) * zone_width

\* line 234, for zones[i]
Collides(shape, position, i) ==
    colliderect(shape.x, shape.y, shape_size, shape_size,
                zone_x(position, i), screen_height - zone_height,
                zone_width, zone_height)

\* lines 233-234 and 253: the first zone of the list that the shape collides
\* with, -1 when there is none
FirstZone(shape, position) ==
    IF \E i \in 0..2 : Collides(shape, position, i)
    THEN CHOOSE i \in 0..2 :
             Collides(shape, position, i)
             /\ \A j \in 0..(i - 1) : ~Collides(shape, position, j)
    ELSE -1

\* lines 205-214; spawn_speed is not a key of the program's dict: it records
\* shape_speed at the spawn for the claims
new_shape(color, x, speed) ==
    [color |-> color, x |-> x, y |-> 0 - shape_size, spawn_speed |-> speed]

\* lines 226-230 and 246-250
LoseLife(acc, shape) ==
    LET l == acc.lives - 1 IN
    [acc EXCEPT !.lives = l,
                !.played = IF l = 0
                           THEN acc.played \o <<wrong_match_sound, game_over_sound>>
                           ELSE Append(acc.played, wrong_match_sound),
                !.game_over = acc.game_over \/ l = 0,
                !.shapes = ListRemove(acc.shapes, shape),
                !.removed = Append(acc.removed, shape)]

\* mutant: the spawn delay is lowered without the floor
Catch_noFloor(acc, shape) ==
    LET sc == acc.score + 1
        up == sc % speed_increase_interval = 0
    IN [acc EXCEPT !.score = sc,
                   !.played = Append(acc.played, match_sound),
                   !.high_score = IF sc > acc.high_score THEN sc
                                  ELSE acc.high_score,
                   !.speed = IF up THEN acc.speed + 1 ELSE acc.speed,
                   !.delay = IF up THEN acc.delay - spawn_delay_step
                             ELSE acc.delay,
                   !.shapes = ListRemove(acc.shapes, shape),
                   !.removed = Append(acc.removed,
                                      [shape EXCEPT !.y = screen_height])]

\* lines 236-244 and 252
Catch(acc, shape) ==
    LET sc == acc.score + 1
        up == sc % speed_increase_interval = 0
        lower == acc.delay - spawn_delay_step
    IN [acc EXCEPT !.score = sc,
                   !.played = Append(acc.played, match_sound),
                   !.high_score = IF sc > acc.high_score THEN sc
                                  ELSE acc.high_score,
                   !.speed = IF up THEN acc.speed + 1 ELSE acc.speed,
                   !.delay = IF ~up THEN acc.delay
                             ELSE IF lower > spawn_delay_min THEN lower
                             ELSE spawn_delay_min,
                   !.shapes = ListRemove(acc.shapes, shape),
                   !.removed = Append(acc.removed,
                                      [shape EXCEPT !.y = screen_height])]

\* mutant: a shape past the bottom is removed without a miss
g_ResolveOne_dropsSilently(acc, shape, position) ==
    IF shape.y > screen_height
    THEN [acc EXCEPT !.shapes = ListRemove(acc.shapes, shape),
                     !.removed = Append(acc.removed, shape)]
    ELSE LET z == FirstZone(shape, position) IN
         IF z = -1 THEN acc
         ELSE IF shape.color = zone_colors[z + 1] THEN Catch(acc, shape)
         ELSE LoseLife(acc, shape)

\* lines 224-253: the body of the collision loop for one shape
g_ResolveOne(acc, shape, position) ==
    IF shape.y > screen_height THEN LoseLife(acc, shape)
    ELSE LET z == FirstZone(shape, position) IN
         IF z = -1 THEN acc
         ELSE IF shape.color = zone_colors[z + 1] THEN Catch(acc, shape)
         ELSE LoseLife(acc, shape)

RECURSIVE g_ResolveFrom(_, _, _, _)
\* line 223: for shape in shapes[:], from position i of the copy on
g_ResolveFrom(acc, copy, i, position) ==
    IF i > Len(copy) THEN acc
    ELSE g_ResolveFrom(g_ResolveOne(acc, copy[i], position), copy, i + 1,
                       position)

\* lines 219-220
MoveDown(list, speed) ==
    [i \in DOMAIN list |-> [list[i] EXCEPT !.y = list[i].y + speed]]

\* lines 113-134: a KEYDOWN event of game_intro, also one that follows the
\* SPACE of the same frame
game_intro_key(key) ==
    /\ g_pc \in {"intro", "intro_end"}
    /\ g_pc' = IF key = K_SPACE THEN "intro_end" ELSE g_pc
    /\ sound_on' = IF key = K_s THEN ~sound_on ELSE sound_on
    /\ UNCHANGED <<game_over, g_score, g_high_score, g_lives, shape_speed,
                   zone_position, g_shapes, g_elapsed, shape_spawn_delay,
                   played, g_removed,
                   g_file>>

\* lines 118-120 and 141-143: pygame.quit(); quit()
quit_screen ==
    /\ g_pc \in {"intro", "intro_end", "over"}
    /\ g_pc' = "exit"
    /\ UNCHANGED <<sound_on, game_over, g_score, g_high_score, g_lives,
                   shape_speed, zone_position, g_shapes, g_elapsed,
                   shape_spawn_delay, played, g_removed,
                   g_file>>

\* lines 159-183: game_loop() up to its while loop
game_loop_begin ==
    /\ g_pc \in {"intro_end", "restart"}
    /\ game_over' = FALSE
    /\ g_score' = 0
    /\ LET loaded == g_load_high_score(g_file) IN
       IF loaded.ok
       THEN /\ g_pc' = "loop"
            /\ g_high_score' = loaded.value
            /\ g_lives' = lives_0
            /\ shape_speed' = shape_speed_0
            /\ zone_position' = zone_position_0
            /\ g_shapes' = <<>>
            /\ g_elapsed' = 0
            /\ shape_spawn_delay' = shape_spawn_delay_0
       ELSE /\ g_pc' = "error"
            /\ UNCHANGED <<g_high_score, g_lives, shape_speed, zone_position,
                           g_shapes, g_elapsed, shape_spawn_delay>>
    /\ UNCHANGED <<sound_on, played, g_removed,
                   g_file>>

\* lines 189-190
g_quit ==
    /\ g_pc = "loop"
    /\ game_over' = TRUE
    /\ UNCHANGED <<g_pc, sound_on, g_score, g_high_score, g_lives,
                   shape_speed, zone_position, g_shapes, g_elapsed,
                   shape_spawn_delay, played, g_removed,
                   g_file>>

\* lines 191-195
g_keydown(key) ==
    /\ g_pc = "loop"
    /\ zone_position' =
         IF key = K_LEFT
         THEN (IF zone_position - 1 > 0 THEN zone_position - 1 ELSE 0)
         ELSE IF key = K_RIGHT
         THEN (IF zone_position + 1 < 2 THEN zone_position + 1 ELSE 2)
         ELSE zone_position
    /\ UNCHANGED <<g_pc, sound_on, game_over, g_score, g_high_score, g_lives,
                   shape_speed, g_shapes, g_elapsed, shape_spawn_delay,
                   played, g_removed,
                   g_file>>

\* the clock read at line 203 of the next frame, against last_shape_time
g_Later(e, dt) ==
    IF e + dt > shape_spawn_delay_0 THEN shape_spawn_delay_0 + 1 ELSE e + dt

\* lines 197-271: the rest of one iteration after its events, the test of the
\* while loop after it and, when the loop ends, the game-over sequence
g_frame(dt, color, x) ==
    /\ g_pc = "loop"
    /\ LET due == g_elapsed > shape_spawn_delay
           spawned == IF due
                      THEN Append(g_shapes, new_shape(color, x, shape_speed))
                      ELSE g_shapes
           moved == MoveDown(spawned, shape_speed)
           acc == g_ResolveFrom([score |-> g_score, high_score |-> g_high_score,
                                 lives |-> g_lives, speed |-> shape_speed,
                                 delay |-> shape_spawn_delay,
                                 game_over |-> game_over, shapes |-> moved,
                                 played |-> <<>>, removed |-> <<>>],
                                moved, 1, zone_position)
       IN /\ g_shapes' = acc.shapes
          /\ g_score' = acc.score
          /\ g_high_score' = acc.high_score
          /\ g_lives' = acc.lives
          /\ shape_speed' = acc.speed
          /\ shape_spawn_delay' = acc.delay
          /\ game_over' = acc.game_over
          /\ played' = acc.played
          /\ g_removed' = acc.removed
          /\ g_elapsed' = g_Later(IF due THEN 0 ELSE g_elapsed, dt)
          /\ g_pc' = IF acc.game_over THEN "over" ELSE "loop"
          /\ g_file' = IF acc.game_over THEN g_save_high_score(acc.high_score)
                       ELSE g_file
    /\ UNCHANGED <<sound_on, zone_position>>

\* lines 144-146: a KEYDOWN event of game_over_screen
game_over_screen_key(key) ==
    /\ g_pc = "over"
    /\ g_pc' = IF key = K_SPACE THEN "restart" ELSE g_pc
    /\ UNCHANGED <<sound_on, game_over, g_score, g_high_score, g_lives,
                   shape_speed, zone_position, g_shapes, g_elapsed,
                   shape_spawn_delay, played, g_removed,
                   g_file>>

-----------------------------------------------------------------------------
(* Specifications                                                          *)

Colours == {COLOUR_LIST[i] : i \in DOMAIN COLOUR_LIST}
ShapeTypes == {SHAPE_TYPES[i] : i \in DOMAIN SHAPE_TYPES}

\* the draws of random.choice at lines 160-161, made only by a frame that spawns
Draws(colours, types) ==
    IF game_state = STATE_PLAYING /\ elapsed > SHAPE_SPAWN_INTERVAL
    THEN colours \X types
    ELSE {<<COLOUR_LIST[1], SHAPE_TYPES[1]>>}

\* The frames that are followed: a Playing session while its score is below
\* maxScore, and frame times that do not bring a spawn onto maxLive live shapes
Followed(maxScore, maxLive) ==
    /\ game_state = STATE_PLAYING => score < maxScore
    /\ ~(game_state' = STATE_PLAYING /\ elapsed' > SHAPE_SPAWN_INTERVAL
         /\ Len(shapes') >= maxLive)

\* All keys, QUIT, both frame times, every colour, two of the shape types
Next ==
    \/ Quit /\ UNCHANGED gvars
    \/ \E key \in Keys : KeyDown(key) /\ UNCHANGED gvars
    \/ \E dt \in FrameTimes,
          draw \in Draws(Colours, ShapeTypes \ {SHAPE_TYPES[2]}) :
          /\ Frame(dt, draw[1], draw[2]) /\ Followed(MaxScore, MaxLive)
          /\ UNCHANGED gvars

Spec == Init /\ [][Next]_vars

\* Longer sessions with more shapes in flight: no QUIT, two of the colours,
\* one shape type
NextLong ==
    \/ \E key \in Keys : KeyDown(key) /\ UNCHANGED gvars
    \/ \E dt \in FrameTimes,
          draw \in Draws(Colours \ {COLOUR_LIST[3]}, {SHAPE_TYPES[1]}) :
          /\ Frame(dt, draw[1], draw[2]) /\ Followed(LongScore, LongLive)
          /\ UNCHANGED gvars

SpecLong == Init /\ [][NextLong]_vars

\* the draws of random.choice and randint at lines 207-209 of gemini.py, made
\* only by a frame that spawns
GDraws(colours, xs) ==
    IF g_elapsed > shape_spawn_delay
    THEN colours \X xs
    ELSE {<<shape_colors[1], 0>>}

\* of randint(0, screen_width - shape_size): the left end, a shape across the
\* border of the first two columns, the right end
ShapeXs == {0, zone_width - shape_size \div 2, screen_width - shape_size}

\* The frames of gemini.py that are followed: as Followed
GFollowed(maxScore, maxLive) ==
    /\ g_score < maxScore
    /\ ~(g_pc' = "loop" /\ g_elapsed' > shape_spawn_delay'
         /\ Len(g_shapes') >= maxLive)

\* gemini.py: every key and QUIT on the three screens, every colour and the
\* horizontal positions ShapeXs
NextGemini ==
    \/ \E key \in GKeys : game_intro_key(key) /\ UNCHANGED cvars
    \/ quit_screen /\ UNCHANGED cvars
    \/ game_loop_begin /\ UNCHANGED cvars
    \/ g_quit /\ UNCHANGED cvars
    \/ \E key \in GKeys : g_keydown(key) /\ UNCHANGED cvars
    \/ \E draw \in GDraws(Colours, ShapeXs) :
          /\ g_frame(GemFrame, draw[1], draw[2]) /\ GFollowed(GemScore, GemLive)
          /\ UNCHANGED cvars
    \/ \E key \in GKeys : game_over_screen_key(key) /\ UNCHANGED cvars

SpecGemini == InitGemini /\ [][NextGemini]_vars

\* gemini.py, one longer session with more shapes in flight: no QUIT, no sound
\* toggle, no restart
NextGeminiLong ==
    \/ game_intro_key(K_SPACE) /\ UNCHANGED cvars
    \/ game_loop_begin /\ UNCHANGED cvars
    \/ \E key \in {K_LEFT, K_RIGHT} : g_keydown(key) /\ UNCHANGED cvars
    \/ \E draw \in GDraws(Colours, ShapeXs) :
          /\ g_frame(GemFrame, draw[1], draw[2])
          /\ GFollowed(GemLongScore, GemLongLive)
          /\ UNCHANGED cvars

RECURSIVE Texts(_)
\* the contents of at most n characters: a digit, a blank, a letter
Texts(n) ==
    IF n = 0 THEN {<<>>}
    ELSE Texts(n - 1)
         \cup {Append(t, c) : t \in Texts(n - 1), c \in {"1", " ", "x"}}

\* no file, or a file of any of these contents
TextFiles == {NoFile} \cup {[exists |-> TRUE, text |-> t] : t \in Texts(MaxText)}

\* Both scripts from their start to the point where the high score has been
\* loaded, over every store of TextFiles: chatgpt.py loads it before its loop
\* (line 220), gemini.py when game_loop() is entered
InitStore == ChatgptStarts(TextFiles) /\ GeminiStarts(TextFiles)

NextStore ==
    \/ \E key \in GKeys : game_intro_key(key) /\ UNCHANGED cvars
    \/ quit_screen /\ UNCHANGED cvars
    \/ game_loop_begin /\ UNCHANGED cvars

SpecStore == InitStore /\ [][NextStore]_vars

\* One of the two scripts is run, each in its longer sessions
InitEither == Init \/ InitGemini

NextEither ==
    \/ GeminiStarts({NoFile}) /\ NextLong
    \/ ChatgptStarts({NoFile}) /\ NextGeminiLong

SpecEither == InitEither /\ [][NextEither]_vars

-----------------------------------------------------------------------------
(* Claims                                                                  *)

\* A step that is one frame of a Playing session: in Playing, a key changes
\* nothing but index and QUIT nothing but running.
PlayingFrame ==
    game_state = STATE_PLAYING /\ index' = index /\ running' = running

Ids(list) == {list[i].id : i \in DOMAIN list}

\* the zone-row contact condition as the claims word it
BottomEdgeAtRow(sh) == sh.y + sh.size >= Scale * (HEIGHT - BOTTOM_MARGIN)

Matched(list, centre) ==
    {i \in DOMAIN list : BottomEdgeAtRow(list[i]) /\ list[i].colour = centre}

Mismatched(list, centre) ==
    {i \in DOMAIN list : BottomEdgeAtRow(list[i]) /\ list[i].colour # centre}

\* C1: in every reachable state lives is in 0..NUM_LIVES; it never goes
\* below 0, also when several shapes are resolved as misses in one pass.
C1_LivesInRange == lives \in 0..NUM_LIVES

\* C2: the session is in GameOver exactly when lives hit 0: the state is never
\* GameOver with lives other than 0, and never Playing with lives <= 0 at the
\* start of a frame.
C2_GameOverIffZero ==
    /\ game_state = STATE_GAMEOVER => lives = 0
    /\ game_state = STATE_PLAYING => lives > 0

\* C3: the only changes of game_state are Title -> Playing by a key press,
\* Playing -> GameOver by a frame that ends with lives exhausted, and
\* GameOver -> Title by SPACE.
C3_OnlyThreeTransitions ==
    [][game_state' # game_state =>
         \/ /\ game_state = STATE_TITLE /\ game_state' = STATE_PLAYING
            /\ \E key \in Keys : KeyDown(key)
         \/ /\ game_state = STATE_PLAYING /\ game_state' = STATE_GAMEOVER
            /\ lives' <= 0
            /\ PlayingFrame
         \/ /\ game_state = STATE_GAMEOVER /\ game_state' = STATE_TITLE
            /\ KeyDown(K_SPACE)]_vars

\* the three transitions have all been taken: back on the title screen after a
\* lost session
C3_Witness == game_state = STATE_TITLE /\ lives <= 0 /\ to_remove # <<>>

\* C4: a key in a state it is not bound to is ignored.  LEFT/RIGHT rotate only
\* in Playing (in Title they start the game at the default rotation, in
\* GameOver they change nothing); only SPACE in GameOver leads to Title; any
\* other key in GameOver and any key but LEFT/RIGHT in Playing changes nothing.
C4_WrongStateIgnored ==
    [][\A key \in Keys : KeyDown(key) =>
         /\ game_state = STATE_TITLE =>
              game_state' = STATE_PLAYING /\ index' = CollectorZones
         /\ game_state = STATE_GAMEOVER /\ key # K_SPACE => UNCHANGED vars
         /\ game_state = STATE_GAMEOVER /\ key = K_SPACE =>
              /\ game_state' = STATE_TITLE
              /\ UNCHANGED <<pc, running, index, shapes, to_remove, score, lives,
                             current_fall_speed, elapsed, high_score, file,
                             next_id>>
         /\ game_state = STATE_PLAYING /\ key \notin {K_LEFT, K_RIGHT} =>
              UNCHANGED vars
         /\ game_state = STATE_PLAYING /\ key \in {K_LEFT, K_RIGHT} =>
              /\ index' # index
              /\ UNCHANGED <<pc, running, game_state, shapes, to_remove, score,
                             lives, current_fall_speed, elapsed, high_score,
                             file, next_id>>]_vars

\* keys have been pressed in GameOver after a session that rotated the zones
C4_Witness ==
    game_state = STATE_GAMEOVER /\ index # CollectorZones /\ lives <= 0

\* C5: of the shapes a frame resolves at the zone row, each one whose colour
\* is the centre colour adds 1 to score and leaves lives alone, each other one
\* takes 1 life and leaves score alone, whatever the shape type.
C5_MatchOutcome ==
    [][PlayingFrame =>
         LET centre == get_centre_colour(index) IN
         /\ score' = score + Cardinality(Matched(to_remove', centre))
         /\ lives' = lives - Cardinality(Mismatched(to_remove', centre))
                          - Cardinality({i \in DOMAIN to_remove' :
                                           ~BottomEdgeAtRow(to_remove'[i])})]_vars

\* a triangle of the centre colour has just been caught, after a mismatch
C5_Witness ==
    /\ game_state = STATE_PLAYING /\ score >= 1 /\ lives < NUM_LIVES
    /\ to_remove # <<>>
    /\ to_remove[1].shape_type = SHAPE_TYPES[3]
    /\ to_remove[1].colour = get_centre_colour(index)

\* C6: from a state of a Playing session no step lowers score or raises
\* lives, and score grows by exactly 1 for each shape caught in the step.
C6_ScoreUpLivesDown ==
    [][game_state = STATE_PLAYING =>
         /\ score' >= score
         /\ lives' <= lives
         /\ score' # score =>
              score' - score =
                Cardinality({i \in DOMAIN to_remove' :
                               to_remove'[i].colour = get_centre_colour(index)})]_vars

\* a session that has both scored and lost lives
C6_Witness ==
    game_state = STATE_PLAYING /\ score = 2 /\ lives = 1

RECURSIVE Lefts(_, _)
Lefts(i, n) == IF n = 0 THEN i ELSE Lefts(move_left(i), n - 1)

RECURSIVE Rights(_, _)
Rights(i, n) == IF n = 0 THEN i ELSE Rights(move_right(i), n - 1)

\* C8: left then right, and right then left, restore the active colour; so do
\* three rotations the same way; n left rotations shift the active colour by
\* n places modulo 3 without clamping; the three slots always show the three
\* palette colours, one of them in the centre.
C8_RotationCyclic ==
    /\ index \in 0..2
    /\ get_centre_colour(move_right(move_left(index))) = get_centre_colour(index)
    /\ get_centre_colour(move_left(move_right(index))) = get_centre_colour(index)
    /\ get_centre_colour(Lefts(index, 3)) = get_centre_colour(index)
    /\ get_centre_colour(Rights(index, 3)) = get_centre_colour(index)
    /\ \A n \in 0..MaxRot :
         /\ get_centre_colour(Lefts(index, n))
              = COLOUR_LIST[((index + 1 + 2 * n) % 3) + 1]
         /\ get_centre_colour(Rights(index, n))
              = COLOUR_LIST[((index + 1 + n) % 3) + 1]
         /\ get_centre_colour(Lefts(index, n)) # get_centre_colour(Lefts(index, n + 1))
    /\ {COLOUR_LIST[((index + i) % 3) + 1] : i \in 0..2} = Colours
    /\ Cardinality({c \in Colours : c = get_centre_colour(index)}) = 1

\* a left rotation from the default index has wrapped around to 2
C8_Witness == game_state = STATE_PLAYING /\ index = 2 /\ shapes = <<>> /\ next_id = 0

\* C9: the frame that ends a session sets the high score to the larger of the
\* old high score and the final score and writes the file only if the final
\* score is strictly greater; otherwise high score and file stay as they are.
\* No step lowers the high score or touches the file otherwise.
C9_HighScore ==
    [][/\ high_score' >= high_score
       /\ IF game_state = STATE_PLAYING /\ game_state' = STATE_GAMEOVER
             /\ score' > high_score
          THEN /\ high_score' = score'
               /\ file'.exists
               /\ load_high_score(file') = score'
          ELSE /\ high_score' = high_score
               /\ file' = file]_vars

\* a game over that beat the high score of an empty store and was written
C9_Witness ==
    /\ game_state = STATE_GAMEOVER /\ score = 2 /\ high_score = 2
    /\ file.exists /\ file.text = <<"2">>

\* C10: the start transition always gives score 0, NUM_LIVES lives, no live
\* shape, the default rotation, the base fall speed and a last-spawn time of
\* now, whatever the previous session left; high score and file carry over.
C10_StartResets ==
    [][game_state = STATE_TITLE /\ game_state' = STATE_PLAYING =>
         /\ score' = 0
         /\ lives' = NUM_LIVES
         /\ shapes' = <<>>
         /\ index' = 0
         /\ current_fall_speed' = Scale * SHAPE_FALL_SPEED
         /\ elapsed' = 0
         /\ high_score' = high_score
         /\ file' = file]_vars

\* a new session has started after one that ended with a raised fall speed
C10_Witness ==
    /\ game_state = STATE_PLAYING /\ next_id = 0 /\ score = 0
    /\ current_fall_speed = Scale * SHAPE_FALL_SPEED
    /\ \E i \in DOMAIN to_remove : to_remove[i].speed > Scale * SHAPE_FALL_SPEED

\* A step that is one frame of game_loop() in gemini.py
GeminiFrame == g_pc = "loop" /\ zone_position' = zone_position
               /\ game_over' \in {game_over, g_lives' <= 0}
               /\ <<g_shapes, g_elapsed, played>>' # <<g_shapes, g_elapsed, played>>

\* chatgpt.py: a shape of the lists after a frame has the speed it was given
\* at its spawn and has fallen by exactly that speed in the frame; a shape
\* spawned by the frame was given the fall speed the session had then
ChatgptFallsBySpawnSpeed ==
    \A sh \in {shapes'[i] : i \in DOMAIN shapes'}
              \cup {to_remove'[i] : i \in DOMAIN to_remove'} :
        IF sh.id \in Ids(shapes)
        THEN \E j \in DOMAIN shapes :
                 /\ shapes[j].id = sh.id
                 /\ sh.speed = shapes[j].speed
                 /\ sh.y = shapes[j].y + shapes[j].speed
        ELSE /\ sh.speed = current_fall_speed
             /\ sh.y = Scale * SHAPE_START_Y + current_fall_speed

\* gemini.py: the same for the shapes that are live after a frame
GeminiFallsBySpawnSpeed ==
    \A i \in DOMAIN g_shapes' :
        LET sh == g_shapes'[i] IN
        \/ \E j \in DOMAIN g_shapes :
               /\ g_shapes[j].color = sh.color /\ g_shapes[j].x = sh.x
               /\ g_shapes[j].spawn_speed = sh.spawn_speed
               /\ sh.y = g_shapes[j].y + sh.spawn_speed
        \/ /\ g_elapsed > shape_spawn_delay
           /\ sh.spawn_speed = shape_speed
           /\ sh.y = (0 - shape_size) + shape_speed

\* C11: in both scripts a shape falls in every frame by the fall speed the
\* session had when the shape was spawned; an increment of the fall speed
\* changes only the shapes spawned after its frame.  In chatgpt.py the fall
\* speed is the base speed below SPEED_INCREMENT_INTERVAL points and one
\* increment above it at exactly that score.
C11_SpeedFixedAtSpawn ==
    [][/\ PlayingFrame => ChatgptFallsBySpawnSpeed
       /\ game_state' = STATE_PLAYING /\ score' < SPEED_INCREMENT_INTERVAL =>
            current_fall_speed' = Scale * SHAPE_FALL_SPEED
       /\ game_state' = STATE_PLAYING /\ score' = SPEED_INCREMENT_INTERVAL =>
            current_fall_speed' = Scale * SHAPE_FALL_SPEED + SPEED_INCREMENT_AMOUNT
       /\ GeminiFrame => GeminiFallsBySpawnSpeed]_vars

\* C12: within a session the difficulty never eases.  No step from a
\* Playing state of chatgpt.py lowers current_fall_speed; no step inside
\* game_loop() of gemini.py lowers shape_speed or raises shape_spawn_delay,
\* and the spawn delay is never below its minimum, whatever is caught.
C12_DifficultyNeverEases ==
    [][/\ game_state = STATE_PLAYING => current_fall_speed' >= current_fall_speed
       /\ g_pc = "loop" =>
            /\ shape_speed' >= shape_speed
            /\ shape_spawn_delay' <= shape_spawn_delay
       /\ shape_spawn_delay' >= spawn_delay_min]_vars

\* the spawn delay has been lowered to its minimum, and a further increment of
\* the speed has left it there
C12_Witness ==
    /\ g_pc = "loop" /\ shape_spawn_delay = spawn_delay_min
    /\ shape_speed > shape_speed_0
                     + (shape_spawn_delay_0 - spawn_delay_min) \div spawn_delay_step

\* the distance from the bottom edge of a new shape to collector.y
ZoneDistance == collector_y - Scale * (SHAPE_START_Y + SHAPE_SIZE)

\* ceil(ZoneDistance / S)
TicksToRow(S) == (ZoneDistance + S - 1) \div S

\* C13: in chatgpt.py a shape spawned with fall speed S is resolved at the
\* zone row in exactly the ceil(ZoneDistance / S)-th frame counted from its
\* spawn frame: every frame moves it by S, a shape that is live after a frame
\* has fallen for fewer frames than that, and a shape the frame has resolved
\* has fallen for exactly that many.
C13_TicksToZoneRow ==
    [][PlayingFrame =>
         /\ ChatgptFallsBySpawnSpeed
         /\ \A i \in DOMAIN shapes' :
              \E a \in 1..(TicksToRow(shapes'[i].speed) - 1) :
                  shapes'[i].y = Scale * SHAPE_START_Y + a * shapes'[i].speed
         /\ \A i \in DOMAIN to_remove' :
              to_remove'[i].y = Scale * SHAPE_START_Y
                  + TicksToRow(to_remove'[i].speed) * to_remove'[i].speed]_vars

\* a shape of the raised speed, which does not divide the distance, has been
\* resolved
C13_Witness ==
    /\ game_state = STATE_PLAYING
    /\ \E i \in DOMAIN to_remove :
         /\ to_remove[i].speed > Scale * SHAPE_FALL_SPEED
         /\ ZoneDistance % to_remove[i].speed # 0

\* C14: chatgpt.py runs the simulation in a frame only if the state is
\* Playing, in the order spawn, advance, resolve, test of the lives.  The
\* spawn is decided on the clock the frame starts with; the shape it adds is
\* advanced by the same frame; shapes are resolved where the advance has put
\* them; the state after the frame is GameOver exactly when the resolution
\* has left no life.  A step that stays in Title or in GameOver changes none
\* of score, lives, shapes, fall speed, rotation and high score, and moves
\* the time since the last spawn only forward.
C14_TickOrder ==
    [][/\ PlayingFrame =>
            /\ next_id' = IF elapsed > SHAPE_SPAWN_INTERVAL THEN next_id + 1
                          ELSE next_id
            /\ Ids(shapes') \cup Ids(to_remove') =
                 Ids(shapes) \cup (IF elapsed > SHAPE_SPAWN_INTERVAL
                                   THEN {next_id} ELSE {})
            /\ ChatgptFallsBySpawnSpeed
            /\ \A i \in DOMAIN to_remove' :
                 BottomEdgeAtRow(to_remove'[i]) \/ is_off_screen(to_remove'[i])
            /\ \A i \in DOMAIN shapes' :
                 ~BottomEdgeAtRow(shapes'[i]) /\ ~is_off_screen(shapes'[i])
            /\ game_state' = IF lives' <= 0 THEN STATE_GAMEOVER
                             ELSE STATE_PLAYING
       /\ game_state # STATE_PLAYING /\ game_state' = game_state =>
            /\ UNCHANGED <<score, lives, shapes, to_remove, current_fall_speed,
                           index, high_score, file, next_id>>
            /\ elapsed' >= elapsed]_vars

\* frames have gone by in GameOver with a spawn overdue and a shape in flight
C14_Witness ==
    /\ game_state = STATE_GAMEOVER /\ shapes # <<>>
    /\ elapsed > SHAPE_SPAWN_INTERVAL

\* the identities a frame has added to the lists
SpawnedIds == (Ids(shapes') \cup Ids(to_remove')) \ Ids(shapes)

\* C15: in chatgpt.py a Playing frame spawns a shape if and only if the time
\* since the last spawn is strictly greater than SHAPE_SPAWN_INTERVAL, never
\* more than one, and the spawn restarts that time; so a new session has no
\* shape until more than one interval after its start.
C15_SpawnAfterInterval ==
    [][/\ PlayingFrame =>
            /\ SpawnedIds = IF elapsed > SHAPE_SPAWN_INTERVAL THEN {next_id}
                            ELSE {}
            /\ Cardinality(SpawnedIds) <= 1
            /\ elapsed' \in {Later(IF elapsed > SHAPE_SPAWN_INTERVAL THEN 0
                                   ELSE elapsed, dt) : dt \in FrameTimes}
       /\ game_state' = STATE_PLAYING /\ next_id' = 0 =>
            shapes' = <<>>
       /\ game_state = STATE_TITLE /\ game_state' = STATE_PLAYING =>
            elapsed' = 0 /\ next_id' = 0]_vars

\* exactly one interval after the first spawn of a session, no second spawn
C15_Witness ==
    /\ game_state = STATE_PLAYING /\ elapsed = SHAPE_SPAWN_INTERVAL
    /\ next_id = 1

\* what a store holds for the claims: its integer, 0 when it is absent or
\* int() does not accept its content
StoredValue(f) ==
    IF f.exists /\ PyInt(f.text).ok THEN PyInt(f.text).value ELSE 0

\* C16: in both scripts load_high_score returns the stored integer, and 0
\* when the store is absent or its content is not an integer (an empty file
\* included); it never raises.  chatgpt.py has loaded when its loop starts,
\* gemini.py when game_loop() has reached its loop.
C16_LoadHighScore ==
    /\ game_state = STATE_TITLE /\ lives = NUM_LIVES =>
         high_score = StoredValue(file)
    /\ g_pc # "error"
    /\ g_pc = "loop" /\ g_score = 0 /\ g_lives = lives_0 =>
         g_high_score = StoredValue(g_file)

\* the shapes of a list that are past the bottom of the gemini.py screen
PastBottom(list) == {i \in DOMAIN list : list[i].y > screen_height}

\* the calls of play_sound with the miss sound in a list of calls
MissCalls(calls) == {i \in DOMAIN calls : calls[i] = wrong_match_sound}

\* C17: a shape that passes the bottom of the playfield without having been
\* resolved at the zone row costs exactly one life, fires the miss
\* notification and is removed; it is never left in the live set nor dropped
\* without a miss.  gemini.py: every shape a frame moves past the bottom is
\* among the removed ones, every removed shape past the bottom cost one life
\* and one call of the miss sound (the other removed shapes are the ones
\* resolved at the zone row: a catch is moved to the bottom edge and adds 1
\* to score, a wrong zone costs the other lives).  chatgpt.py: no shape stays
\* in the list once it is off the screen, and a removed shape that was not
\* at the zone row cost a life.
C17_PastBottomIsMiss ==
    [][/\ GeminiFrame =>
            LET moved == {j \in DOMAIN g_shapes :
                            g_shapes[j].y + shape_speed > screen_height}
                caught == {i \in DOMAIN g_removed' :
                             g_removed'[i].y = screen_height}
                wrong == {i \in DOMAIN g_removed' :
                            g_removed'[i].y < screen_height}
            IN /\ PastBottom(g_shapes') = {}
               /\ Cardinality(PastBottom(g_removed')) = Cardinality(moved)
               /\ g_lives' = g_lives - Cardinality(PastBottom(g_removed'))
                                     - Cardinality(wrong)
               /\ g_score' = g_score + Cardinality(caught)
               /\ Cardinality(MissCalls(played')) = g_lives - g_lives'
               /\ Len(g_shapes') + Len(g_removed') =
                    Len(g_shapes) + (IF g_elapsed > shape_spawn_delay
                                     THEN 1 ELSE 0)
       /\ PlayingFrame =>
            /\ \A i \in DOMAIN shapes' : ~is_off_screen(shapes'[i])
            /\ lives - lives' >=
                 Cardinality({i \in DOMAIN to_remove' :
                                ~BottomEdgeAtRow(to_remove'[i])})]_vars

\* gemini.py: a shape has just been removed past the bottom, in a column the
\* zones did not cover, and it cost the first life of the session
C17_Witness ==
    /\ g_pc = "loop" /\ g_lives = lives_0 - 1
    /\ PastBottom(g_removed) # {}
    /\ played = <<wrong_match_sound>>

\* C18: in gemini.py the game-over sequence (save_high_score and
\* game_over_screen) is reached if and only if lives has hit 0: game_loop()
\* goes on to it only with no life left, a frame that takes the last life
\* goes on to it, and a QUIT received while playing does not lead to it.
C18_GameOverIffNoLives ==
    [][/\ g_pc = "loop" /\ g_pc' = "over" => g_lives' <= 0
       /\ GeminiFrame /\ g_lives' <= 0 => g_pc' = "over"]_vars

\* the colour of the slot zone_position selects among the three zones
ActiveZoneColor == zone_colors[zone_position + 1]

\* C19: in gemini.py a shape is a successful catch only if its colour is the
\* colour of the single zone slot zone_position selects; no shape scores by
\* the colour of one of the two other slots, wherever it falls.
C19_CatchOnlyActiveSlot ==
    [][GeminiFrame =>
         \A i \in DOMAIN g_removed' :
             g_removed'[i].y = screen_height =>
               g_removed'[i].color = ActiveZoneColor]_vars

\* C20: in chatgpt.py, in every state of a session, the current fall speed
\* is SHAPE_FALL_SPEED plus SPEED_INCREMENT_AMOUNT for every full
\* SPEED_INCREMENT_INTERVAL of score: one increment each time score becomes a
\* positive multiple of the interval, none at score 0, none twice for one
\* score.  Speeds are in half pixels per frame.
C20_SpeedFromScore ==
    game_state \in {STATE_PLAYING, STATE_GAMEOVER} =>
        current_fall_speed =
            Scale * SHAPE_FALL_SPEED
            + SPEED_INCREMENT_AMOUNT * (score \div SPEED_INCREMENT_INTERVAL)

\* one more catch after the catch that raised the speed, which is still the
\* base speed plus one increment
C20_Witness ==
    /\ game_state = STATE_PLAYING
    /\ score = SPEED_INCREMENT_INTERVAL + 1
    /\ current_fall_speed = Scale * SHAPE_FALL_SPEED + SPEED_INCREMENT_AMOUNT
    /\ to_remove # <<>>

\* the test of the off-screen branch of the resolution loop (line 310): the
\* zone-row test of line 289 has failed and is_off_screen() holds
OffScreenBranch(sh) == ~at_zone_row(sh) /\ is_off_screen(sh)

\* the shape as it would be d half pixels below the bottom edge of the screen
Below(sh, d) == [sh EXCEPT !.y = Scale * HEIGHT + sh.size + d]

\* C21: in chatgpt.py the off-screen branch of the resolution loop is never
\* taken.  In every frame of a session no shape the loop has tested (the
\* shapes still live and the shapes removed) meets the test of that branch,
\* every removed shape is at the zone row, and the lives lost are the
\* removed shapes of another colour than the centre zone.  A shape for which
\* is_off_screen() holds is at the zone row too, and the loop resolves it
\* by the colour comparison: a point for the centre colour, a life otherwise.
C21_OffScreenBranchDead ==
    [][PlayingFrame =>
         LET centre == get_centre_colour(index)
             acc == [score |-> score, lives |-> lives,
                     speed |-> current_fall_speed, to_remove |-> <<>>]
         IN /\ \A i \in DOMAIN shapes' : ~OffScreenBranch(shapes'[i])
            /\ \A i \in DOMAIN to_remove' :
                  /\ ~OffScreenBranch(to_remove'[i])
                  /\ at_zone_row(to_remove'[i])
            /\ lives - lives' = Cardinality(Mismatched(to_remove', centre))
            /\ \A i \in DOMAIN to_remove' : \A d \in 1..MaxPast :
                  LET sh == Below(to_remove'[i], d)
                      r == ResolveOne(acc, sh, centre)
                  IN /\ is_off_screen(sh) /\ at_zone_row(sh)
                     /\ r.to_remove = <<sh>>
                     /\ r.score = score + (IF sh.colour = centre THEN 1 ELSE 0)
                     /\ r.lives = lives - (IF sh.colour = centre THEN 0 ELSE 1)]_vars

\* a life has just been lost, and the shape that cost it was at the zone row
C21_Witness ==
    /\ game_state = STATE_PLAYING /\ lives = NUM_LIVES - 1
    /\ Len(to_remove) = 1
    /\ at_zone_row(to_remove[1]) /\ ~is_off_screen(to_remove[1])
    /\ to_remove[1].colour # get_centre_colour(index)

====
